---------------------------- MODULE Spec2Model ----------------------------
(***************************************************************************)
(* Model of the mirrord execution orchestrator.                            *)
(*                                                                         *)
(* Two pipelines exist in the repository:                                  *)
(*   - the shared executor execute_mirrord_run (tools/executor.rs), used   *)
(*     by the rust, python and raw-command tools through MirrordRunnable;  *)
(*   - the standalone synchronous pipelines run (tools/node.rs) and        *)
(*     run_service (run_service.rs), which do every step inline.           *)
(*                                                                         *)
(* A request is a process; pc[r] is the await point (or blocking call) it  *)
(* is parked at.  External programs (kubectl, cargo, python3, pip, npm,    *)
(* mirrord) are child processes whose outcome the environment chooses.     *)
(***************************************************************************)
EXTENDS Integers, Sequences, FiniteSets, TLC

\* Number of requests that run concurrently.
NumReq == 1

Req == 1..NumReq

\* The tools that go through execute_mirrord_run, and the standalone ones.
SharedVariants == {"rust", "python", "raw"}
StandaloneVariants == {"node", "run_service"}
Variants == SharedVariants \cup StandaloneVariants

\* Values of MCP_SERVICE_COMPILE_MODE (unset reads as "release").
CompileModes == {"release", "debug", "fast"}

Deployment == "checkout"
Namespace == "default"

\* What `kubectl get pods -o jsonpath=...` may print on exit 0: a pod name,
\* or nothing when no instance matches.
PodNames == {"checkout-7f9", "checkout-2b1"}

-----------------------------------------------------------------------------
(***************************************************************************)
(* JSON.  A document is a sequence of tokens; serde_json::from_str is a    *)
(* recursive-descent parser over it and serde_json::to_string prints a     *)
(* value back as tokens.                                                   *)
(***************************************************************************)

Punct == {"{", "}", "[", "]", ":", ","}

JNull == [kind |-> "null"]
JArray == [kind |-> "array"]
JStr(s) == [kind |-> "string", s |-> s]
JObj(f) == [kind |-> "object", f |-> f]

EmptyMap == [k \in {} |-> JNull]
MapPut(m, k, v) == [x \in (DOMAIN m) \cup {k} |-> IF x = k THEN v ELSE m[x]]

ParseErr == [ok |-> FALSE]
ParseOk(v, next) == [ok |-> TRUE, val |-> v, next |-> next]

RECURSIVE ParseValue(_, _), ParseMembers(_, _, _, _)

\* One JSON value starting at toks[i].
ParseValue(toks, i) ==
    IF i > Len(toks) THEN ParseErr
    ELSE LET t == toks[i] IN
         IF t = "{" THEN ParseMembers(toks, i + 1, EmptyMap, TRUE)
         ELSE IF t = "["
              THEN IF i + 1 <= Len(toks) /\ toks[i + 1] = "]"
                   THEN ParseOk(JArray, i + 2)
                   ELSE ParseErr
         ELSE IF t = "null" THEN ParseOk(JNull, i + 1)
         ELSE IF t \in Punct THEN ParseErr
         ELSE ParseOk(JStr(t), i + 1)

\* The members of an object whose "{" has been read; a repeated key keeps
\* its last value, a trailing comma is an error.
ParseMembers(toks, i, acc, first) ==
    IF i > Len(toks) THEN ParseErr
    ELSE IF toks[i] = "}"
         THEN IF first THEN ParseOk(JObj(acc), i + 1) ELSE ParseErr
    ELSE IF toks[i] \in Punct \/ i + 1 > Len(toks) \/ toks[i + 1] # ":"
         THEN ParseErr
    ELSE LET v == ParseValue(toks, i + 2) IN
         IF ~v.ok \/ v.next > Len(toks) THEN ParseErr
         ELSE LET acc2 == MapPut(acc, toks[i], v.val) IN
              IF toks[v.next] = "}" THEN ParseOk(JObj(acc2), v.next + 1)
              ELSE IF toks[v.next] = "," THEN ParseMembers(toks, v.next + 1, acc2, FALSE)
              ELSE ParseErr

\* serde_json::from_str: the whole text must be one value.
from_str(toks) ==
    LET p == ParseValue(toks, 1) IN
    IF p.ok /\ p.next = Len(toks) + 1 THEN [ok |-> TRUE, val |-> p.val] ELSE ParseErr

\* The order in which to_string prints the keys of a map.
KeyOrder == <<"agent", "feature", "namespace", "path", "target">>

RECURSIVE to_string(_), MembersToString(_, _)

MembersToString(f, keys) ==
    IF keys = <<>> THEN <<>>
    ELSE <<Head(keys), ":">> \o to_string(f[Head(keys)])
         \o (IF Len(keys) > 1 THEN <<",">> ELSE <<>>)
         \o MembersToString(f, Tail(keys))

\* serde_json::to_string.
to_string(v) ==
    IF v.kind = "null" THEN <<"null">>
    ELSE IF v.kind = "array" THEN <<"[", "]">>
    ELSE IF v.kind = "string" THEN <<v.s>>
    ELSE <<"{">>
         \o MembersToString(v.f, SelectSeq(KeyOrder, LAMBDA k : k \in DOMAIN v.f))
         \o <<"}">>

\* Value::index with a string key: Null unless an object that has the key.
Index(v, k) ==
    IF v.kind = "object" /\ k \in DOMAIN v.f THEN v.f[k] ELSE JNull

\* The partial configurations a caller may send in mirrord_config.
ConfigInputs ==
    { <<"{", "feature", ":", "mirror", "}">>,
      <<"{", "target", ":", "{", "path", ":", "pod/old", "}", ",",
             "feature", ":", "mirror", ",", "agent", ":", "priv", "}">>,
      <<"[", "]">>,
      <<"mirror">>,
      <<"{", "feature", ":", "mirror", ",", "}">> }

-----------------------------------------------------------------------------
(***************************************************************************)
(* Errors.  Every failure is McpError::internal_error(message, None): one  *)
(* error code, a message prefix from the source and the interpolated text. *)
(***************************************************************************)

McpError(msg, detail) == [ok |-> FALSE, code |-> "internal_error", msg |-> msg, detail |-> detail]
Ok(stdout) == [ok |-> TRUE, code |-> "", msg |-> "", detail |-> stdout]
NoResult == [ok |-> FALSE, code |-> "", msg |-> "", detail |-> ""]

\* ExitStatus::code() of a child killed by a signal is None.
NoCode == -1
\* The exit statuses told apart: every caller reads status.success(), only
\* the executor's handling of mirrord also reads status.code().
ExitCodes(kind) == IF kind = "mirrord" THEN {0, 1, NoCode} ELSE {0, 1}

\* The outcome of Command::output() run by a task.
NoOutput == [res |-> "", code |-> 0, stdout |-> "", stderr |-> ""]
Exited(code, out, err) == [res |-> "exit", code |-> code, stdout |-> out, stderr |-> err]
SpawnErr(kind) == [res |-> "spawn_err", code |-> 0, stdout |-> "", stderr |-> kind]
JoinErr == [res |-> "join_err", code |-> 0, stdout |-> "", stderr |-> "panicked"]
SpawnErrKinds == {"NotFound", "PermissionDenied"}

\* A task: the closure handed to spawn_blocking (or the inline blocking call
\* of a standalone pipeline) and the child process it runs.
\* `argv` is the command line of a `mirrord exec` child, from the closure
\* that builds it to the exit of the child.
NoTask == [kind |-> "", st |-> "none", out |-> NoOutput, argv |-> <<>>]
Queued(kind) == [kind |-> kind, st |-> "queued", out |-> NoOutput, argv |-> <<>>]
Running(kind) == [kind |-> kind, st |-> "running", out |-> NoOutput, argv |-> <<>>]
Done(kind, out) == [kind |-> kind, st |-> "done", out |-> out, argv |-> <<>>]
WithArgs(t, argv) == [t EXCEPT !.argv = argv]

\* A task that ends: its output goes to the JoinHandle, or nowhere when the
\* handle was dropped (the function has returned).
Finished(kind, out, detached) == Done(kind, IF detached THEN NoOutput ELSE out)

InvalidUtf8 == "<invalid-utf8>"

\* String::from_utf8_lossy: bytes that are not UTF-8 come out with U+FFFD in
\* place of the invalid sequences.
Replaced == "<U+FFFD>"
from_utf8_lossy(bytes) == IF bytes = InvalidUtf8 THEN Replaced ELSE bytes

\* What each program may print.
StdoutOf(kind) ==
    IF kind = "kubectl" THEN PodNames \cup {"", InvalidUtf8}
    ELSE IF kind = "mirrord" THEN {"response", InvalidUtf8}
    ELSE {""}
StderrOf(kind) ==
    IF kind \in {"cargo", "venv", "pip", "npm"} THEN {"diagnostic", InvalidUtf8}
    ELSE {"diagnostic"}

\* The request's scratch directory and, for a compiled variant, the cargo
\* profile directory under target/ that holds the built binary.
\* `name` is the random part of its path (0: no path).
NoDir == [exists |-> FALSE, bin |-> "none", name |-> 0]
FreshDir(name) == [exists |-> TRUE, bin |-> "none", name |-> name]

\* The config file: absent, or present with its content, under a random name.
NoFile == [exists |-> FALSE, content |-> <<>>, name |-> 0]
File(name, content) == [exists |-> TRUE, content |-> content, name |-> name]

\* The names taken in the temporary directory by the entries of `entries`
\* (the requests' workspaces, or their config files) that exist.
Used(entries) == { entries[q].name : q \in { x \in DOMAIN entries : entries[x].exists } }

\* A name that is the same for every caller.
FixedName(r, used) == 1

\* tempfile's create loop, and Uuid::new_v4 for the Node and service
\* workspaces: a random name that no existing entry has.  Names are only
\* compared for equality, so one unused name stands for any of them: the
\* number of the calling request when that is unused.
TempName(r, used) ==
    CHOOSE n \in {r} \cup 1..(Cardinality(used) + 1) :
        n \notin used /\ (r \notin used => n = r)

VARIABLES
    variant,        \* the tool the request came through
    compile_mode,   \* RustRunner.compile_mode / run_service's compile_mode
                    \* ("release" until run_service reads the environment)
    mirrord_config, \* Request.mirrord_config, the partial configuration (<<>>
                    \* until the pipeline first reads it)
    pc,             \* where the request's future is parked
    project_dir,    \* temp_dir (executor) / project_dir (standalone) on disk
    config_file,    \* config_path (executor) / config_file (standalone) on disk
    task,           \* the blocking task and child process of the current step
    pod_name,       \* the resolved instance
    config_str,     \* the effective configuration
    result,         \* what the caller received
    trace,          \* the steps of the pipeline in the order they were entered
    disk            \* "ok": the temporary directory lets its entries be removed;
                    \* "faulty": a removal may fail

vars == <<variant, compile_mode, mirrord_config, pc, project_dir, config_file,
          task, pod_name, config_str, result, trace, disk>>

Init ==
    /\ variant \in [Req -> Variants]
    /\ compile_mode \in [Req -> CompileModes]
    /\ \A r \in Req : variant[r] # "rust" => compile_mode[r] = "release"
    /\ mirrord_config = [r \in Req |-> <<>>]
    /\ pc = [r \in Req |-> "start"]
    /\ project_dir = [r \in Req |-> NoDir]
    /\ config_file = [r \in Req |-> NoFile]
    /\ task = [r \in Req |-> NoTask]
    /\ pod_name = [r \in Req |-> ""]
    /\ config_str = [r \in Req |-> <<>>]
    /\ result = [r \in Req |-> NoResult]
    /\ trace = [r \in Req |-> <<>>]
    /\ disk = "ok"


inputs == <<variant, compile_mode, mirrord_config, disk>>

-----------------------------------------------------------------------------
(***************************************************************************)
(* Pure parts of the pipeline.                                             *)
(***************************************************************************)

\* `cargo build` arguments for a compile mode, and the profile directory
\* under target/ that cargo writes the binary to for those arguments.
compile_args(mode) == IF mode = "debug" THEN <<"build">> ELSE <<"build", "--release">>
ProfileDir(args) == IF Len(args) > 1 /\ args[2] = "--release" THEN "release" ELSE "debug"

\* RustRunner::get_binary_path: target/<compile_mode>/mirrord-agent-code,
\* named here by its profile directory.
get_binary_path(mode) == mode

\* The paths of a workspace and of a config file with the given random name.
WorkspacePath(dir) == "/tmp/.tmp" \o ToString(dir.name)
ConfigPath(file) == "/tmp/.tmp" \o ToString(file.name) \o ".json"

\* The command lines a caller gives the raw-command tool, character by
\* character:  echo "a b" c  /  ls -l  /  sh -c 'exit 0'.
EchoLine == <<"e", "c", "h", "o", " ", "\"", "a", " ", "b", "\"", " ", "c">>
CmdInputs ==
    { EchoLine,
      <<"l", "s", " ", "-", "l">>,
      <<"s", "h", " ", "-", "c", " ", "'", "e", "x", "i", "t", " ", "0", "'">> }

\* Splitting at every blank, quotes or not.
RECURSIVE blank_split_from(_, _, _, _)
blank_split_from(line, i, word, started) ==
    IF i > Len(line) THEN (IF started THEN <<word>> ELSE <<>>)
    ELSE IF line[i] = " "
         THEN (IF started THEN <<word>> ELSE <<>>) \o blank_split_from(line, i + 1, "", FALSE)
         ELSE blank_split_from(line, i + 1, word \o line[i], TRUE)

\* Shell word splitting from position i on: `quote` is the quote that is
\* open ("" for none), `word` the word read so far, `started` whether a
\* word has begun.  Blanks outside quotes end a word, quotes group and are
\* dropped, nothing is expanded.
RECURSIVE shell_split_from(_, _, _, _, _)
shell_split_from(line, i, quote, word, started) ==
    IF i > Len(line) THEN (IF started THEN <<word>> ELSE <<>>)
    ELSE IF quote # ""
         THEN IF line[i] = quote
              THEN shell_split_from(line, i + 1, "", word, TRUE)
              ELSE shell_split_from(line, i + 1, quote, word \o line[i], TRUE)
    ELSE IF line[i] \in {"\"", "'"}
         THEN shell_split_from(line, i + 1, line[i], word, TRUE)
    ELSE IF line[i] = " "
         THEN (IF started THEN <<word>> ELSE <<>>)
              \o shell_split_from(line, i + 1, "", "", FALSE)
    ELSE shell_split_from(line, i + 1, "", word \o line[i], TRUE)

\* A tokenizer that splits inside quotes.
blank_split(line) == blank_split_from(line, 1, "", FALSE)

\* The raw-command runner's tokenizer.
shell_split(line) == shell_split_from(line, 1, "", "", FALSE)

\* Runners whose python is the interpreter found on the PATH.
get_command_args_system(v, dir, mode, cmd) ==
    IF v = "rust"
    THEN <<WorkspacePath(dir) \o "/target/" \o get_binary_path(mode) \o "/mirrord-agent-code">>
    ELSE IF v = "python"
    THEN <<"python3", WorkspacePath(dir) \o "/main.py">>
    ELSE shell_split(cmd)

\* MirrordRunnable::get_command_args of the runner of variant v for the
\* workspace `dir`; `cmd` is the raw-command tool's command line.
get_command_args(v, dir, mode, cmd) ==
    IF v = "rust"
    THEN <<WorkspacePath(dir) \o "/target/" \o get_binary_path(mode) \o "/mirrord-agent-code">>
    ELSE IF v = "python"
    THEN <<WorkspacePath(dir) \o "/.venv/bin/python", WorkspacePath(dir) \o "/main.py">>
    ELSE shell_split(cmd)

\* The invocation of the standalone pipelines.
standalone_command_args(v, dir, mode) ==
    IF v = "node" THEN <<"node", WorkspacePath(dir) \o "/index.js">>
    ELSE <<WorkspacePath(dir) \o "/target/" \o mode \o "/mirrord-agent-code">>

\* The command line of the mirrord child.
mirrord_command(config_path, command_args) ==
    <<"mirrord", "exec", "--config-file", config_path>> \o command_args

\* An outcome that reports every spawn failure as "Failed to start".
JoinedUnclassified(out, prog) ==
    IF out.res = "spawn_err"
    THEN McpError("Failed to start " \o prog \o " process: ", out.stderr)
    ELSE IF out.res = "join_err"
    THEN McpError(prog \o " task failed: ", out.stderr)
    ELSE Ok("")

\* The outcome of timeout(.., spawn_blocking(..)) once the task is done, for
\* a program whose NotFound is told apart (cargo, kubectl, mirrord).
JoinedWithNotFound(out, prog) ==
    IF out.res = "spawn_err"
    THEN IF out.stderr = "NotFound"
         THEN McpError("Failed to execute " \o prog \o ": '" \o prog \o "' command not found in PATH.", "")
         ELSE McpError("Failed to start " \o prog \o " process: ", out.stderr)
    ELSE IF out.res = "join_err"
    THEN McpError(prog \o " task failed: ", out.stderr)
    ELSE Ok("")

\* setup_project without the check that the binary exists.
RustBuildResultUnchecked(out, dir, mode) ==
    LET joined == JoinedWithNotFound(out, "cargo") IN
    IF ~joined.ok THEN joined
    ELSE IF out.code # 0 THEN McpError("Rust build failed: ", from_utf8_lossy(out.stderr))
    ELSE Ok("")

\* RustRunner::setup_project from the build's outcome on.
RustBuildResult(out, dir, mode) ==
    LET joined == JoinedWithNotFound(out, "cargo") IN
    IF ~joined.ok THEN joined
    ELSE IF out.code # 0 THEN McpError("Rust build failed: ", from_utf8_lossy(out.stderr))
    ELSE IF dir.bin # get_binary_path(mode)
    THEN McpError("Compiled binary not found after successful build at: ", get_binary_path(mode))
    ELSE Ok("")

\* An outcome that reports a failed command without what it printed.
PythonStepResultBare(out, start_msg, task_msg, failed_msg) ==
    IF out.res = "spawn_err" THEN McpError(start_msg, out.stderr)
    ELSE IF out.res = "join_err" THEN McpError(task_msg, out.stderr)
    ELSE IF out.code # 0 THEN McpError(failed_msg, "")
    ELSE Ok("")

\* PythonRunner::setup_project: the outcome of one of its two commands.
PythonStepResult(out, start_msg, task_msg, failed_msg) ==
    IF out.res = "spawn_err" THEN McpError(start_msg, out.stderr)
    ELSE IF out.res = "join_err" THEN McpError(task_msg, out.stderr)
    ELSE IF out.code # 0 THEN McpError(failed_msg, from_utf8_lossy(out.stderr))
    ELSE Ok("")

\* handle_kubectl_output without the is_empty check: an empty name is a name.
handle_kubectl_output_unchecked(out, deployment) ==
    IF out.code = 0
    THEN IF out.stdout = InvalidUtf8
         THEN McpError("Failed to parse pod name from kubectl output", "")
         ELSE Ok(out.stdout)
    ELSE McpError("kubectl command failed: ", from_utf8_lossy(out.stderr))

\* handle_kubectl_output without the status.success() test: whatever the
\* child printed is read as the pod name.
handle_kubectl_output_any_status(out, deployment) ==
    IF out.stdout = InvalidUtf8
    THEN McpError("Failed to parse pod name from kubectl output", "")
    ELSE IF out.stdout = ""
    THEN McpError("No pod found for deployment: ", deployment)
    ELSE Ok(out.stdout)

\* handle_kubectl_output that answers with a pod name remembered from an
\* earlier call whenever the query succeeds.
handle_kubectl_output_cached(out, deployment) ==
    IF out.code = 0
    THEN IF out.stdout = InvalidUtf8
         THEN McpError("Failed to parse pod name from kubectl output", "")
         ELSE IF out.stdout = ""
         THEN McpError("No pod found for deployment: ", deployment)
         ELSE Ok("checkout-7f9")
    ELSE McpError("kubectl command failed: ", from_utf8_lossy(out.stderr))

\* handle_kubectl_output.
handle_kubectl_output(out, deployment) ==
    IF out.code = 0
    THEN IF out.stdout = InvalidUtf8
         THEN McpError("Failed to parse pod name from kubectl output", "")
         ELSE IF out.stdout = ""
         THEN McpError("No pod found for deployment: ", deployment)
         ELSE Ok(out.stdout)
    ELSE McpError("kubectl command failed: ", from_utf8_lossy(out.stderr))

\* get_pod_name once the blocking task is done.
PodNameResult(out, deployment) ==
    LET joined == JoinedWithNotFound(out, "kubectl") IN
    IF ~joined.ok THEN joined ELSE handle_kubectl_output(out, deployment)

\* The target value: json!({"namespace": namespace, "path": format!("pod/{}", pod_name)}).
target_value(namespace, pod) ==
    JObj(MapPut(MapPut(EmptyMap, "namespace", JStr(namespace)), "path", JStr("pod/" \o pod)))

\* An insert that keeps a target the caller sent.
InsertTargetIfAbsent(obj, target) ==
    IF "target" \in DOMAIN obj.f THEN obj ELSE JObj(MapPut(obj.f, "target", target))

\* A merge that leaves the partial config as the caller sent it.
InsertTargetSkipped(obj, target) == obj

\* config_obj.insert("target", target_value).
InsertTarget(obj, target) == JObj(MapPut(obj.f, "target", target))

Merged(config) == [ok |-> TRUE, config |-> config, err |-> NoResult]
MergeFailed(err) == [ok |-> FALSE, config |-> <<>>, err |-> err]

\* A merge that falls back to an empty object when the config does not parse.
update_mirrord_config_lenient(config, pod, namespace) ==
    LET parsed == from_str(config) IN
    IF ~parsed.ok
    THEN Merged(to_string(InsertTarget(JObj(EmptyMap), target_value(namespace, pod))))
    ELSE IF parsed.val.kind # "object"
    THEN MergeFailed(McpError("Mirrord config must be a JSON object", ""))
    ELSE Merged(to_string(InsertTarget(parsed.val, target_value(namespace, pod))))

\* update_mirrord_config after the pod name is known: parse, require an
\* object, insert the target, serialize.  (to_string cannot fail on a value
\* that from_str produced, so SerializeFailed has no input.)
update_mirrord_config(config, pod, namespace) ==
    LET parsed == from_str(config) IN
    IF ~parsed.ok THEN MergeFailed(McpError("Failed to parse mirrord config", ""))
    ELSE IF parsed.val.kind # "object"
    THEN MergeFailed(McpError("Mirrord config must be a JSON object", ""))
    ELSE Merged(to_string(InsertTarget(parsed.val, target_value(namespace, pod))))

\* The standalone pipelines' config: json!({"target": .., "feature": config["feature"]}).
standalone_config(config, pod) ==
    LET parsed == from_str(config) IN
    IF ~parsed.ok THEN MergeFailed(McpError("Failed to parse mirrord config", ""))
    ELSE Merged(to_string(JObj(MapPut(MapPut(EmptyMap, "target", target_value("default", pod)),
                                      "feature", Index(parsed.val, "feature")))))

\* A result that returns both streams of the child on success.
MirrordResultWithStderr(out) ==
    LET joined == JoinedWithNotFound(out, "mirrord") IN
    IF ~joined.ok THEN joined
    ELSE IF out.code = 0 THEN Ok(from_utf8_lossy(out.stdout) \o from_utf8_lossy(out.stderr))
    ELSE McpError("Mirrord execution failed (Exit Code: "
                  \o (IF out.code = NoCode THEN "None" ELSE ToString(out.code)) \o "): ",
                  from_utf8_lossy(out.stderr))

\* A result that reports status.code().unwrap_or(-1) as the exit code.
MirrordResultCodeOrDefault(out) ==
    LET joined == JoinedWithNotFound(out, "mirrord") IN
    IF ~joined.ok THEN joined
    ELSE IF out.code = 0 THEN Ok(from_utf8_lossy(out.stdout))
    ELSE McpError("Mirrord execution failed (Exit Code: " \o ToString(out.code) \o "): ",
                  from_utf8_lossy(out.stderr))

\* The result of the mirrord child in the executor.
MirrordResult(out) ==
    LET joined == JoinedWithNotFound(out, "mirrord") IN
    IF ~joined.ok THEN joined
    ELSE IF out.code = 0 THEN Ok(from_utf8_lossy(out.stdout))
    ELSE McpError("Mirrord execution failed (Exit Code: "
                  \o (IF out.code = NoCode THEN "None" ELSE ToString(out.code)) \o "): ",
                  from_utf8_lossy(out.stderr))

\* A temp_dir turned into a plain path (TempDir::into_path): nothing removes it.
KeepTempDir(dir) == dir

\* Drop of the TempDir and of the TempPath: the directory tree / the file is
\* removed.
DropTempDir(dir) == NoDir
DropTempPath(file) == NoFile

\* What a removal can leave of `entry`: `gone`, or, when the removal fails,
\* the entry as it was.
RemoveOutcomes(entry, gone) ==
    IF disk = "faulty" /\ entry.exists THEN {gone, entry} ELSE {gone}

\* A cleanup whose failure takes the place of the request's result.
AfterCleanupChecked(res, dir, file) ==
    IF dir.exists \/ file.exists THEN McpError("Failed to clean up", "") ELSE res

\* The result of the request after cleanup has left `dir` and `file`: the
\* Drop impls and `let _ =` discard the removal's error.
AfterCleanup(res, dir, file) == res


-----------------------------------------------------------------------------
(***************************************************************************)
(* The shared executor, execute_mirrord_run.                               *)
(***************************************************************************)

\* The function returns `res`: its locals go out of scope, config_path and
\* temp_dir are dropped.  `steps` are the steps entered by the returning
\* action.
Return(r, res, steps) ==
    /\ pc' = [pc EXCEPT ![r] = "returned"]
    /\ \E dir \in RemoveOutcomes(project_dir[r], DropTempDir(project_dir[r])),
          file \in RemoveOutcomes(config_file[r], DropTempPath(config_file[r])) :
          /\ config_file' = [config_file EXCEPT ![r] = file]
          /\ project_dir' = [project_dir EXCEPT ![r] = dir]
          /\ result' = [result EXCEPT ![r] = AfterCleanup(res, dir, file)]
    /\ trace' = [trace EXCEPT ![r] =
                   @ \o steps \o (IF project_dir[r].exists THEN <<"cleanup">> ELSE <<>>)]
    /\ pod_name' = [pod_name EXCEPT ![r] = ""]
    /\ config_str' = [config_str EXCEPT ![r] = <<>>]

\* The function moves on to the await point `next`.
Goto(r, next, steps) ==
    /\ pc' = [pc EXCEPT ![r] = next]
    /\ trace' = [trace EXCEPT ![r] = @ \o steps]

\* 1. tempfile::tempdir().
Acquire(r) ==
    /\ variant[r] \in SharedVariants
    /\ pc[r] = "start"
    /\ \/ /\ project_dir' = [project_dir EXCEPT ![r] = FreshDir(TempName(r, Used(project_dir)))]
          /\ Goto(r, "setup", <<"acquire", "acquire.ok">>)
          /\ UNCHANGED <<inputs, config_file, task, pod_name, config_str, result>>
       \/ /\ Return(r, McpError("Failed to create temporary directory", ""), <<"acquire">>)
          /\ UNCHANGED <<inputs, task>>

\* 2. RustRunner::setup_project up to the dispatch of `cargo build`.
RustSetupProject(r) ==
    /\ variant[r] = "rust"
    /\ pc[r] = "setup"
    /\ \/ /\ \E msg \in {"Failed to create src directory", "Failed to write Cargo.toml",
                         "Failed to write main.rs"} :
                Return(r, McpError(msg, ""), <<"setup">>)
          /\ UNCHANGED <<inputs, task>>
       \/ /\ task' = [task EXCEPT ![r] = Queued("cargo")]
          /\ Goto(r, "await_cargo", <<"setup">>)
          /\ UNCHANGED <<inputs, project_dir, config_file, pod_name, config_str, result>>

\* timeout(CARGO_BUILD_TIMEOUT, blocking_task) resolved by the task.
AwaitCargo(r) ==
    /\ pc[r] = "await_cargo"
    /\ task[r].st = "done"
    /\ task' = [task EXCEPT ![r] = NoTask]
    /\ LET res == RustBuildResult(task[r].out, project_dir[r], compile_mode[r]) IN
       IF res.ok
       THEN /\ Goto(r, "resolve", <<"setup.ok">>)
            /\ UNCHANGED <<inputs, project_dir, config_file, pod_name, config_str, result>>
       ELSE /\ Return(r, res, <<>>)
            /\ UNCHANGED inputs

\* timeout(CARGO_BUILD_TIMEOUT, blocking_task) resolved by the deadline.
TimeoutCargo(r) ==
    /\ pc[r] = "await_cargo"
    /\ task[r].st # "done"
    /\ Return(r, McpError("Cargo build timed out after ", "180s"), <<>>)
    /\ UNCHANGED <<inputs, task>>

\* PythonRunner::setup_project up to the dispatch of `python3 -m venv`.
PythonSetupProject(r) ==
    /\ variant[r] = "python"
    /\ pc[r] = "setup"
    /\ \/ /\ \E msg \in {"Failed to write main.py", "Failed to write requirements.txt",
                         "Failed to create venv directory"} :
                Return(r, McpError(msg, ""), <<"setup">>)
          /\ UNCHANGED <<inputs, task>>
       \/ /\ task' = [task EXCEPT ![r] = Queued("venv")]
          /\ Goto(r, "await_venv", <<"setup">>)
          /\ UNCHANGED <<inputs, project_dir, config_file, pod_name, config_str, result>>

\* The venv command is done: on success `pip install` is dispatched.
AwaitVenv(r) ==
    /\ pc[r] = "await_venv"
    /\ task[r].st = "done"
    /\ LET res == PythonStepResult(task[r].out, "Failed to start python venv process: ",
                                   "Python venv task failed: ", "Failed to create python venv: ") IN
       IF res.ok
       THEN /\ task' = [task EXCEPT ![r] = Queued("pip")]
            /\ Goto(r, "await_pip", <<>>)
            /\ UNCHANGED <<inputs, project_dir, config_file, pod_name, config_str, result>>
       ELSE /\ task' = [task EXCEPT ![r] = NoTask]
            /\ Return(r, res, <<>>)
            /\ UNCHANGED inputs

TimeoutVenv(r) ==
    /\ pc[r] = "await_venv"
    /\ task[r].st # "done"
    /\ Return(r, McpError("Python venv command timed out after ", "180s"), <<>>)
    /\ UNCHANGED <<inputs, task>>

AwaitPip(r) ==
    /\ pc[r] = "await_pip"
    /\ task[r].st = "done"
    /\ task' = [task EXCEPT ![r] = NoTask]
    /\ LET res == PythonStepResult(task[r].out, "Failed to start pip install process: ",
                                   "Pip install task failed: ", "pip install failed: ") IN
       IF res.ok
       THEN /\ Goto(r, "resolve", <<"setup.ok">>)
            /\ UNCHANGED <<inputs, project_dir, config_file, pod_name, config_str, result>>
       ELSE /\ Return(r, res, <<>>)
            /\ UNCHANGED inputs

TimeoutPip(r) ==
    /\ pc[r] = "await_pip"
    /\ task[r].st # "done"
    /\ Return(r, McpError("Pip install command timed out after ", "180s"), <<>>)
    /\ UNCHANGED <<inputs, task>>

\* The raw-command runner: it has nothing to set up.
RawSetupProject(r) ==
    /\ variant[r] = "raw"
    /\ pc[r] = "setup"
    /\ Goto(r, "resolve", <<"setup", "setup.ok">>)
    /\ UNCHANGED <<inputs, project_dir, config_file, task, pod_name, config_str, result>>


\* A merge that parses the partial config before it asks for the pod.
GetPodNameAfterParse(r) ==
    /\ variant[r] \in SharedVariants
    /\ pc[r] = "resolve"
    /\ \E config \in ConfigInputs :
          /\ mirrord_config' = [mirrord_config EXCEPT ![r] = config]
          /\ IF from_str(config).ok
             THEN /\ task' = [task EXCEPT ![r] = Queued("kubectl")]
                  /\ Goto(r, "await_kubectl", <<"resolve">>)
                  /\ UNCHANGED <<project_dir, config_file, pod_name, config_str, result>>
             ELSE /\ Return(r, McpError("Failed to parse mirrord config", ""), <<"merge">>)
                  /\ UNCHANGED task
    /\ UNCHANGED <<variant, compile_mode, disk>>

\* 3. update_mirrord_config: get_pod_name dispatches `kubectl get pods`.
GetPodName(r) ==
    /\ variant[r] \in SharedVariants
    /\ pc[r] = "resolve"
    /\ task' = [task EXCEPT ![r] = Queued("kubectl")]
    /\ Goto(r, "await_kubectl", <<"resolve">>)
    /\ UNCHANGED <<inputs, project_dir, config_file, pod_name, config_str, result>>

\* timeout(KUBECTL_TIMEOUT, blocking_task) resolved by the task.
AwaitKubectl(r) ==
    /\ pc[r] = "await_kubectl"
    /\ task[r].st = "done"
    /\ task' = [task EXCEPT ![r] = NoTask]
    /\ LET res == PodNameResult(task[r].out, Deployment) IN
       IF res.ok
       THEN /\ pod_name' = [pod_name EXCEPT ![r] = res.detail]
            /\ Goto(r, "merge", <<"resolve.ok">>)
            /\ UNCHANGED <<inputs, project_dir, config_file, config_str, result>>
       ELSE /\ Return(r, res, <<>>)
            /\ UNCHANGED inputs

\* `blocking_task.await` with no timeout around it.
NoKubectlTimeout(r) ==
    /\ FALSE
    /\ UNCHANGED vars

\* timeout(KUBECTL_TIMEOUT, blocking_task) resolved by the deadline.
TimeoutKubectl(r) ==
    /\ pc[r] = "await_kubectl"
    /\ task[r].st # "done"
    /\ Return(r, McpError("kubectl command timed out after ", "30s"), <<>>)
    /\ UNCHANGED <<inputs, task>>

\* update_mirrord_config, after get_pod_name: the request's mirrord_config
\* is read here for the first time.
UpdateMirrordConfig(r) ==
    /\ variant[r] \in SharedVariants
    /\ pc[r] = "merge"
    /\ \E config \in ConfigInputs :
         /\ mirrord_config' = [mirrord_config EXCEPT ![r] = config]
         /\ LET m == update_mirrord_config(config, pod_name[r], Namespace) IN
            IF m.ok
            THEN /\ config_str' = [config_str EXCEPT ![r] = m.config]
                 /\ Goto(r, "config_file", <<"merge", "merge.ok">>)
                 /\ UNCHANGED <<project_dir, config_file, pod_name, result>>
            ELSE Return(r, m.err, <<"merge">>)
    /\ UNCHANGED <<variant, compile_mode, task, disk>>

\* NamedTempFile::with_suffix(".json"), write_all, into_temp_path.
WriteConfigFile(r) ==
    /\ variant[r] \in SharedVariants
    /\ pc[r] = "config_file"
    /\ \/ /\ \E msg \in {"Failed to create temp config file", "Failed to write mirrord config"} :
                Return(r, McpError(msg, ""), <<"config_file">>)
          /\ UNCHANGED <<inputs, task>>
       \/ /\ config_file' = [config_file EXCEPT ![r] =
                                    File(TempName(r, Used(config_file)), config_str[r])]
          /\ Goto(r, "command_args", <<"config_file", "config_file.ok">>)
          /\ UNCHANGED <<inputs, project_dir, task, pod_name, config_str, result>>

\* 4./5. get_command_args, then spawn_blocking of `mirrord exec`.
SpawnMirrord(r) ==
    /\ variant[r] \in SharedVariants
    /\ pc[r] = "command_args"
    /\ \E cmd \in (IF variant[r] = "raw" THEN CmdInputs ELSE {<<>>}) :
          task' = [task EXCEPT ![r] =
                     WithArgs(Queued("mirrord"),
                              mirrord_command(ConfigPath(config_file[r]),
                                              get_command_args(variant[r], project_dir[r],
                                                               compile_mode[r], cmd)))]
    /\ Goto(r, "await_mirrord", <<"execute">>)
    /\ UNCHANGED <<inputs, project_dir, config_file, pod_name, config_str, result>>

\* A wait that dispatches `mirrord exec` again when the run failed.
AwaitMirrordRetry(r) ==
    /\ pc[r] = "await_mirrord"
    /\ task[r].st = "done"
    /\ IF MirrordResult(task[r].out).ok
       THEN /\ task' = [task EXCEPT ![r] = NoTask]
            /\ Return(r, MirrordResult(task[r].out), <<>>)
       ELSE /\ task' = [task EXCEPT ![r] = Queued("mirrord")]
            /\ UNCHANGED <<pc, project_dir, config_file, pod_name, config_str, result, trace>>
    /\ UNCHANGED inputs

\* timeout(MIRRORD_EXEC_TIMEOUT, blocking_task) resolved by the task, and
\* 6. the handling of the output.
AwaitMirrord(r) ==
    /\ pc[r] = "await_mirrord"
    /\ task[r].st = "done"
    /\ task' = [task EXCEPT ![r] = NoTask]
    /\ Return(r, MirrordResult(task[r].out), <<>>)
    /\ UNCHANGED inputs

\* A timeout branch that kills the child and reaps the task.
KillOnTimeout(t) == NoTask

\* timeout(MIRRORD_EXEC_TIMEOUT, blocking_task) resolved by the deadline:
\* the JoinHandle is dropped, which detaches the task.
MirrordTimeoutTask(t) == t

\* `blocking_task.await` with no timeout around it: no deadline ever fires.
NoMirrordTimeout(r) ==
    /\ FALSE
    /\ UNCHANGED vars

TimeoutMirrord(r) ==
    /\ pc[r] = "await_mirrord"
    /\ task[r].st # "done"
    /\ task' = [task EXCEPT ![r] = MirrordTimeoutTask(@)]
    /\ Return(r, McpError("Mirrord execution timed out after ", "120s"), <<>>)
    /\ UNCHANGED inputs

-----------------------------------------------------------------------------
(***************************************************************************)
(* The blocking pool and the child processes.                              *)
(***************************************************************************)

\* A blocking thread picks the closure up and calls Command::output(): the
\* child is spawned, or the spawn fails, or the task ends in a JoinError.
BlockingRun(r) ==
    /\ task[r].st = "queued"
    /\ \/ task' = [task EXCEPT ![r] = WithArgs(Running(@.kind), @.argv)]
       \/ \E k \in SpawnErrKinds :
             task' = [task EXCEPT ![r] = Finished(@.kind, SpawnErr(k), pc[r] = "returned")]
       \/ task' = [task EXCEPT ![r] = Finished(@.kind, JoinErr, pc[r] = "returned")]
    /\ UNCHANGED <<inputs, pc, project_dir, config_file, pod_name, config_str, result, trace>>

\* What a cargo child that exits 0 leaves in the project directory: the
\* binary under the profile directory of its arguments, or no binary.
CargoOutput(dir, mode, code) ==
    IF dir.exists /\ code = 0
    THEN {[dir EXCEPT !.bin = ProfileDir(compile_args(mode))], [dir EXCEPT !.bin = "none"]}
    ELSE {dir}

\* What Command::output() can return for a child of this program that has
\* exited: its status and streams.
ChildOutcomes(kind) ==
    UNION { { Exited(code, out, err) :
                out \in (IF code = 0 THEN StdoutOf(kind)
                         ELSE IF kind = "mirrord" THEN {"response"} ELSE {""}),
                err \in (IF code = 0 THEN {"diagnostic"} ELSE StderrOf(kind)) } :
            code \in ExitCodes(kind) }

\* The child of a blocking task exits; Command::output() returns in the
\* blocking thread and the task is finished.
ChildExit(r) ==
    /\ variant[r] \in SharedVariants
    /\ task[r].st = "running"
    /\ \E out \in ChildOutcomes(task[r].kind) :
          /\ task' = [task EXCEPT ![r] = Finished(@.kind, out, pc[r] = "returned")]
          /\ IF task[r].kind = "cargo"
             THEN \E d \in CargoOutput(project_dir[r], compile_mode[r], out.code) :
                     project_dir' = [project_dir EXCEPT ![r] = d]
             ELSE UNCHANGED project_dir
    /\ UNCHANGED <<inputs, pc, config_file, pod_name, config_str, result, trace>>

-----------------------------------------------------------------------------
(***************************************************************************)
(* The standalone pipelines: run (tools/node.rs) and run_service           *)
(* (run_service.rs).  Every external program is run inline with            *)
(* Command::output(), which returns when the child has exited: the exit    *)
(* of the child and the code after the call are one step.  The             *)
(* project directory is a plain path, removed by an explicit               *)
(* remove_dir_all at the end, and config_file is a NamedTempFile.          *)
(***************************************************************************)

Toolchain(v) == IF v = "node" THEN "npm" ELSE "cargo"

\* The synchronous get_pod_name, from the child's exit on.
sync_get_pod_name(out, deployment) ==
    IF out.code = 0
    THEN IF out.stdout = InvalidUtf8
         THEN McpError("Failed to parse pod name from kubectl output", "")
         ELSE IF out.stdout = ""
         THEN McpError("No pod found for deployment: ", deployment)
         ELSE Ok(out.stdout)
    ELSE McpError("kubectl failed ", out.stderr)

\* The outcome of the install/build command and, for run_service, the check
\* that target/<compile_mode>/agent-code exists.
StandaloneBuildResult(v, out, dir, mode) ==
    IF out.code # 0
    THEN McpError(IF v = "node" THEN "npm install failed: " ELSE "Build failed: ",
                  from_utf8_lossy(out.stderr))
    ELSE IF v = "run_service" /\ dir.bin # mode
    THEN McpError("Binary not found at: ", mode)
    ELSE Ok("")

\* The result after `mirrord exec` has exited.
StandaloneResult(out) ==
    IF out.code = 0 THEN Ok(from_utf8_lossy(out.stdout))
    ELSE McpError("Mirrord execution failed: ", from_utf8_lossy(out.stderr))

\* An early `return Err(..)` / `?`: a NamedTempFile in scope is dropped; the
\* project directory, a String, stays as `dir`.
Bail(r, res, steps, dir) ==
    /\ pc' = [pc EXCEPT ![r] = "returned"]
    /\ result' = [result EXCEPT ![r] = res]
    /\ config_file' = [config_file EXCEPT ![r] = NoFile]
    /\ project_dir' = [project_dir EXCEPT ![r] = dir]
    /\ trace' = [trace EXCEPT ![r] = @ \o steps]
    /\ pod_name' = [pod_name EXCEPT ![r] = ""]
    /\ config_str' = [config_str EXCEPT ![r] = <<>>]

\* get_pod_name: `kubectl get pods` is run inline.
StandaloneGetPodName(r) ==
    /\ variant[r] \in StandaloneVariants
    /\ pc[r] = "start"
    /\ \/ /\ Bail(r, McpError("Failed to execute kubectl command", ""), <<"resolve">>, project_dir[r])
          /\ UNCHANGED <<inputs, task>>
       \/ /\ task' = [task EXCEPT ![r] = Running("kubectl")]
          /\ Goto(r, "sync_kubectl", <<"resolve">>)
          /\ UNCHANGED <<inputs, project_dir, config_file, pod_name, config_str, result>>

\* kubectl has exited.
StandaloneResolved(r) ==
    /\ pc[r] = "sync_kubectl"
    /\ task[r].st = "running"
    /\ task' = [task EXCEPT ![r] = NoTask]
    /\ \E out \in ChildOutcomes("kubectl") :
       LET res == sync_get_pod_name(out, Deployment) IN
       IF res.ok
       THEN /\ pod_name' = [pod_name EXCEPT ![r] = res.detail]
            /\ Goto(r, "parse", <<"resolve.ok">>)
            /\ UNCHANGED <<inputs, project_dir, config_file, config_str, result>>
       ELSE /\ Bail(r, res, <<>>, project_dir[r])
            /\ UNCHANGED inputs

\* serde_json::from_str of the request's config and the json!({..}) built
\* from it.
StandaloneConfig(r) ==
    /\ variant[r] \in StandaloneVariants
    /\ pc[r] = "parse"
    /\ \E config \in ConfigInputs :
         /\ mirrord_config' = [mirrord_config EXCEPT ![r] = config]
         /\ LET m == standalone_config(config, pod_name[r]) IN
            IF m.ok
            THEN /\ config_str' = [config_str EXCEPT ![r] = m.config]
                 /\ Goto(r, "create_dir", <<"merge", "merge.ok">>)
                 /\ UNCHANGED <<project_dir, config_file, pod_name, result>>
            ELSE Bail(r, m.err, <<"merge">>, project_dir[r])
    /\ UNCHANGED <<variant, compile_mode, task, disk>>

WriteErrors(v) ==
    IF v = "node" THEN {"Failed to write package.json", "Failed to write index.js"}
    ELSE {"Failed to write Cargo.toml", "Failed to write main.rs"}

\* create_dir_all of the project directory, the manifest and source files,
\* and the install/build command started inline.  run_service reads
\* MCP_SERVICE_COMPILE_MODE here, after the directory is created.
StandaloneCreateProject(r) ==
    /\ variant[r] \in StandaloneVariants
    /\ pc[r] = "create_dir"
    /\ \/ /\ Bail(r, McpError("Failed to create project directory", ""), <<"acquire">>, project_dir[r])
          /\ UNCHANGED <<inputs, task>>
       \/ /\ \E msg \in WriteErrors(variant[r]) \cup
                        {"Failed to execute " \o (IF variant[r] = "node" THEN "npm install" ELSE "cargo build")} :
                Bail(r, McpError(msg, ""), <<"acquire", "acquire.ok", "setup">>,
                     FreshDir(TempName(r, Used(project_dir))))
          /\ UNCHANGED <<inputs, task>>
       \/ /\ project_dir' = [project_dir EXCEPT ![r] = FreshDir(TempName(r, Used(project_dir)))]
          /\ task' = [task EXCEPT ![r] = Running(Toolchain(variant[r]))]
          /\ \E mode \in (IF variant[r] = "run_service" THEN CompileModes ELSE {compile_mode[r]}) :
                compile_mode' = [compile_mode EXCEPT ![r] = mode]
          /\ Goto(r, "sync_toolchain", <<"acquire", "acquire.ok", "setup">>)
          /\ UNCHANGED <<variant, mirrord_config, disk, config_file, pod_name, config_str, result>>

\* The install/build command has exited; then the config file is written
\* and `mirrord exec` is started inline.
StandaloneBuilt(r) ==
    /\ pc[r] = "sync_toolchain"
    /\ task[r].st = "running"
    /\ \E out \in ChildOutcomes(task[r].kind) :
       \E dir \in (IF task[r].kind = "cargo"
                   THEN CargoOutput(project_dir[r], compile_mode[r], out.code)
                   ELSE {project_dir[r]}) :
       LET res == StandaloneBuildResult(variant[r], out, dir, compile_mode[r]) IN
       IF ~res.ok
       THEN /\ Bail(r, res, <<>>, dir)
            /\ task' = [task EXCEPT ![r] = NoTask]
       ELSE \/ /\ \E msg \in {"Failed to create temp file", "Failed to write mirrord config"} :
                     Bail(r, McpError(msg, ""), <<"setup.ok", "config_file">>, dir)
               /\ task' = [task EXCEPT ![r] = NoTask]
            \/ /\ Bail(r, McpError("Failed to execute mirrord", ""),
                       <<"setup.ok", "config_file", "config_file.ok", "execute">>, dir)
               /\ task' = [task EXCEPT ![r] = NoTask]
            \/ /\ config_file' = [config_file EXCEPT ![r] =
                                    File(TempName(r, Used(config_file)), config_str[r])]
               /\ project_dir' = [project_dir EXCEPT ![r] = dir]
               /\ task' = [task EXCEPT ![r] =
                             WithArgs(Running("mirrord"),
                                      mirrord_command(
                                          ConfigPath(File(TempName(r, Used(config_file)), <<>>)),
                                          standalone_command_args(variant[r], dir,
                                                                  compile_mode[r])))]
               /\ Goto(r, "sync_mirrord", <<"setup.ok", "config_file", "config_file.ok", "execute">>)
               /\ UNCHANGED <<pod_name, config_str, result>>
    /\ UNCHANGED inputs

\* mirrord has exited: remove_dir_all(project_dir), config_file.close(),
\* then the result.
StandaloneExecuted(r) ==
    /\ pc[r] = "sync_mirrord"
    /\ task[r].st = "running"
    /\ task' = [task EXCEPT ![r] = NoTask]
    /\ \E out \in ChildOutcomes("mirrord"),
          dir \in RemoveOutcomes(project_dir[r], NoDir),
          file \in RemoveOutcomes(config_file[r], NoFile) :
          /\ pc' = [pc EXCEPT ![r] = "returned"]
          /\ result' = [result EXCEPT ![r] = AfterCleanup(StandaloneResult(out), dir, file)]
          /\ config_file' = [config_file EXCEPT ![r] = file]
          /\ project_dir' = [project_dir EXCEPT ![r] = dir]
          /\ trace' = [trace EXCEPT ![r] = @ \o <<"cleanup">>]
          /\ pod_name' = [pod_name EXCEPT ![r] = ""]
          /\ config_str' = [config_str EXCEPT ![r] = <<>>]
    /\ UNCHANGED inputs

StandaloneNext(r) ==
    \/ StandaloneGetPodName(r) \/ StandaloneResolved(r) \/ StandaloneConfig(r)
    \/ StandaloneCreateProject(r) \/ StandaloneBuilt(r) \/ StandaloneExecuted(r)

ExecutorNext(r) ==
    \/ Acquire(r)
    \/ RustSetupProject(r) \/ AwaitCargo(r) \/ TimeoutCargo(r)
    \/ PythonSetupProject(r) \/ AwaitVenv(r) \/ TimeoutVenv(r) \/ AwaitPip(r) \/ TimeoutPip(r)
    \/ RawSetupProject(r)
    \/ GetPodName(r) \/ AwaitKubectl(r) \/ TimeoutKubectl(r)
    \/ UpdateMirrordConfig(r) \/ WriteConfigFile(r)
    \/ SpawnMirrord(r) \/ AwaitMirrord(r) \/ TimeoutMirrord(r)

Next ==
    \E r \in Req : ExecutorNext(r) \/ StandaloneNext(r) \/ BlockingRun(r) \/ ChildExit(r)

Spec == Init /\ [][Next]_vars


\* The runtime's timer fires and a finished task wakes the future awaiting
\* it; a child process is under no obligation to exit.
FairSpec ==
    /\ Spec
    /\ \A r \in Req : WF_vars(AwaitMirrord(r)) /\ WF_vars(TimeoutMirrord(r))

\* The same for the waits on the toolchain commands of the runners.  The
\* standalone pipelines wait inside Command::output(): nothing but the exit
\* of the child ends that wait.
SetupFairSpec ==
    /\ Spec
    /\ \A r \in Req : /\ WF_vars(AwaitCargo(r)) /\ WF_vars(TimeoutCargo(r))
                      /\ WF_vars(AwaitVenv(r)) /\ WF_vars(TimeoutVenv(r))
                      /\ WF_vars(AwaitPip(r)) /\ WF_vars(TimeoutPip(r))

\* The same for the wait on the cluster query.
KubectlFairSpec ==
    /\ Spec
    /\ \A r \in Req : WF_vars(AwaitKubectl(r)) /\ WF_vars(TimeoutKubectl(r))

-----------------------------------------------------------------------------
(***************************************************************************)
(* Properties.                                                             *)
(***************************************************************************)

\* The first position of x in seq, 0 when absent.
IndexOf(seq, x) ==
    IF \E i \in 1..Len(seq) : seq[i] = x
    THEN CHOOSE i \in 1..Len(seq) : seq[i] = x /\ \A j \in 1..(i - 1) : seq[j] # x
    ELSE 0

\* x is in seq only after y.
OnlyAfter(seq, x, y) ==
    IndexOf(seq, x) # 0 => (IndexOf(seq, y) # 0 /\ IndexOf(seq, y) < IndexOf(seq, x))

\* Where both are in seq, x is before y.
Before(seq, x, y) ==
    (IndexOf(seq, x) # 0 /\ IndexOf(seq, y) # 0) => IndexOf(seq, x) < IndexOf(seq, y)

Entered(r, step) == IndexOf(trace[r], step) # 0

\* The steps of one request in the order the executor goes through them.
PipelineOrder ==
    <<"acquire", "acquire.ok", "setup", "setup.ok", "resolve", "resolve.ok",
      "merge", "merge.ok", "config_file", "config_file.ok", "execute">>

\* The messages of the errors each step of the executor can fail with.
StepErrors(step) ==
    IF step = "acquire" THEN {"Failed to create temporary directory"}
    ELSE IF step = "setup"
    THEN {"Failed to create src directory", "Failed to write Cargo.toml", "Failed to write main.rs",
          "Failed to execute cargo: 'cargo' command not found in PATH.",
          "Failed to start cargo process: ", "cargo task failed: ", "Cargo build timed out after ",
          "Rust build failed: ", "Compiled binary not found after successful build at: ",
          "Failed to write main.py", "Failed to write requirements.txt",
          "Failed to create venv directory", "Failed to start python venv process: ",
          "Python venv task failed: ", "Python venv command timed out after ",
          "Failed to create python venv: ", "Failed to start pip install process: ",
          "Pip install task failed: ", "Pip install command timed out after ",
          "pip install failed: "}
    ELSE IF step = "resolve"
    THEN {"Failed to execute kubectl: 'kubectl' command not found in PATH.",
          "Failed to start kubectl process: ", "kubectl task failed: ",
          "kubectl command timed out after ", "Failed to parse pod name from kubectl output",
          "No pod found for deployment: ", "kubectl command failed: "}
    ELSE IF step = "merge"
    THEN {"Failed to parse mirrord config", "Mirrord config must be a JSON object"}
    ELSE IF step = "config_file"
    THEN {"Failed to create temp config file", "Failed to write mirrord config"}
    ELSE IF step = "execute"
    THEN {"Failed to execute mirrord: 'mirrord' command not found in PATH.",
          "Failed to start mirrord process: ", "mirrord task failed: ",
          "Mirrord execution timed out after ", "Mirrord execution failed (Exit Code: 1): ",
          "Mirrord execution failed (Exit Code: None): "}
    ELSE {}

Steps == {"acquire", "setup", "resolve", "merge", "config_file", "execute"}

\* C1: once a request has returned, on whatever path and for whatever
\* variant, its workspace directory does not exist.
C1_WorkspaceAbsentAfterReturn ==
    \A r \in Req : pc[r] = "returned" => ~project_dir[r].exists

\* C2: a request of the shared executor that returned an error entered the
\* steps in pipeline order up to the step that failed and no step after it,
\* did Cleanup last (its directory and config file are gone), and the error
\* is one of the failed step's.
C2_FailureShortCircuits ==
    \A r \in Req :
        (variant[r] \in SharedVariants /\ pc[r] = "returned" /\ ~result[r].ok) =>
            LET acquired == Entered(r, "acquire.ok")
                body == IF acquired THEN SubSeq(trace[r], 1, Len(trace[r]) - 1) ELSE trace[r]
            IN  /\ Len(body) >= 1
                /\ Len(body) <= Len(PipelineOrder)
                /\ body = SubSeq(PipelineOrder, 1, Len(body))
                /\ body[Len(body)] \in Steps
                /\ acquired => trace[r][Len(trace[r])] = "cleanup"
                /\ result[r].msg \in StepErrors(body[Len(body)])
                /\ ~project_dir[r].exists
                /\ ~config_file[r].exists

\* C2 witness: a resolution failure was returned after Cleanup.
C2_Witness ==
    \E r \in Req :
        /\ variant[r] \in SharedVariants /\ pc[r] = "returned"
        /\ result[r].msg = "kubectl command failed: "
        /\ trace[r] = <<"acquire", "acquire.ok", "setup", "setup.ok", "resolve", "cleanup">>

\* C3: in every variant, of the steps a request goes through, setup has
\* completed before resolution starts, resolution before the config merge,
\* the merge before the execution.
C3_StepsSequential ==
    \A r \in Req :
        /\ Before(trace[r], "setup.ok", "resolve")
        /\ Before(trace[r], "resolve.ok", "merge")
        /\ Before(trace[r], "merge.ok", "execute")

\* C4: no external tool is invoked and no config is parsed before the
\* request's workspace has been created.
C4_AcquireFirst ==
    \A r \in Req : \A step \in {"setup", "resolve", "merge", "execute"} :
        OnlyAfter(trace[r], step, "acquire.ok")

\* C5: the config file exists as long as the request's mirrord child runs,
\* and is gone once the request has returned.
C5_ConfigFileSpansChild ==
    \A r \in Req :
        /\ (task[r].kind = "mirrord" /\ task[r].st = "running") => config_file[r].exists
        /\ pc[r] = "returned" => ~config_file[r].exists


TimedOut == McpError("Mirrord execution timed out after ", "120s")

\* C6: a request of the shared executor that is waiting for mirrord leaves
\* the wait even if the child never exits, and when it leaves it while the
\* execution has not completed, it returns the timeout error.
C6_ExecutionDeadline ==
    /\ \A r \in Req : (pc[r] = "await_mirrord") ~> (pc[r] = "returned")
    /\ [][\A r \in Req :
            (pc[r] = "await_mirrord" /\ task[r].st # "done" /\ pc'[r] # pc[r]) =>
                (pc'[r] = "returned" /\ result'[r] = TimedOut)]_vars

\* C6 witness: the request returned the timeout error.
C6_Witness ==
    \E r \in Req : pc[r] = "returned" /\ result[r] = TimedOut

\* C7: the step that returns the execution timeout leaves the blocking task
\* and its child as they are: nothing terminates them.
C7_TimeoutLeavesChild ==
    [][\A r \in Req :
          (pc[r] = "await_mirrord" /\ pc'[r] = "returned" /\ result'[r] = TimedOut) =>
              (task'[r] = task[r] /\ task'[r].st \in {"queued", "running"})]_vars

\* C7 witness: the request has returned Timeout and its mirrord child is
\* running.
C7_Witness ==
    \E r \in Req :
        /\ pc[r] = "returned" /\ result[r] = TimedOut
        /\ task[r].kind = "mirrord" /\ task[r].st = "running"

NotFound == McpError("No pod found for deployment: ", Deployment)

\* C8: in the shared executor, a cluster query that exits 0 with empty output
\* makes the request return the not-found error through Cleanup, and a
\* request that returned it never started mirrord.
C8_NoInstanceNotFound ==
    /\ [][\A r \in Req :
            (/\ pc[r] = "await_kubectl" /\ pc'[r] # pc[r]
             /\ task[r].st = "done" /\ task[r].out.res = "exit"
             /\ task[r].out.code = 0 /\ task[r].out.stdout = "") =>
                (pc'[r] = "returned" /\ result'[r] = NotFound)]_vars
    /\ [](\A r \in Req :
            (variant[r] \in SharedVariants /\ pc[r] = "returned" /\ result[r] = NotFound) =>
                /\ ~Entered(r, "execute")
                /\ task[r] = NoTask
                /\ trace[r][Len(trace[r])] = "cleanup"
                /\ ~project_dir[r].exists /\ ~config_file[r].exists)

\* C8 witness: a request of the shared executor returned the not-found error.
C8_Witness ==
    \E r \in Req : variant[r] \in SharedVariants /\ pc[r] = "returned" /\ result[r] = NotFound

\* C9: when the partial configuration is a JSON object, every top-level key
\* of it other than `target` is in the config file with the same value.
C9_MergePreservesKeys ==
    \A r \in Req :
        config_file[r].exists =>
            LET given == from_str(mirrord_config[r])
                effective == from_str(config_file[r].content)
            IN  (given.ok /\ given.val.kind = "object") =>
                    /\ effective.ok /\ effective.val.kind = "object"
                    /\ \A k \in (DOMAIN given.val.f) \ {"target"} :
                          /\ k \in DOMAIN effective.val.f
                          /\ effective.val.f[k] = given.val.f[k]

\* C10: after a successful merge the effective config's `target` is exactly
\* {namespace: "default", path: "pod/<resolved name>"}, also when the caller
\* sent a target of their own.
C10_TargetOverwritten ==
    \A r \in Req :
        config_str[r] # <<>> =>
            LET effective == from_str(config_str[r]) IN
            /\ pod_name[r] \in PodNames
            /\ effective.ok /\ effective.val.kind = "object"
            /\ "target" \in DOMAIN effective.val.f
            /\ effective.val.f["target"] =
                  [kind |-> "object",
                   f |-> [namespace |-> [kind |-> "string", s |-> "default"],
                          path |-> [kind |-> "string", s |-> "pod/" \o pod_name[r]]]]

\* C10 witness: the caller sent a target, "checkout" resolved to
\* checkout-7f9 and the effective target is {default, pod/checkout-7f9}.
C10_Witness ==
    \E r \in Req :
        /\ variant[r] \in SharedVariants
        /\ from_str(mirrord_config[r]).ok
        /\ from_str(mirrord_config[r]).val.kind = "object"
        /\ "target" \in DOMAIN from_str(mirrord_config[r]).val.f
        /\ pod_name[r] = "checkout-7f9"
        /\ config_str[r] = <<"{", "agent", ":", "priv", ",", "feature", ":", "mirror", ",",
                              "target", ":",
                              "{", "namespace", ":", "default", ",",
                              "path", ":", "pod/checkout-7f9", "}", "}">>

InvalidJson == McpError("Failed to parse mirrord config", "")

\* C11: in every variant, the step that reads a partial configuration that
\* is not parseable JSON returns the parse error and touches no file, and a
\* request that returned the parse error never created a config file.
C11_InvalidJsonNoWrites ==
    /\ [][\A r \in Req :
            (/\ pc[r] \in {"merge", "parse"} /\ pc'[r] # pc[r]
             /\ ~from_str(mirrord_config'[r]).ok) =>
                /\ pc'[r] = "returned" /\ result'[r] = InvalidJson
                /\ ~config_file[r].exists /\ ~config_file'[r].exists
                /\ ~project_dir'[r].exists]_vars
    /\ [](\A r \in Req :
            (pc[r] = "returned" /\ result[r] = InvalidJson) =>
                /\ ~from_str(mirrord_config[r]).ok
                /\ ~Entered(r, "config_file") /\ ~Entered(r, "execute")
                /\ ~config_file[r].exists)

\* C11 witness: a request of the shared executor whose configuration is the
\* object with a trailing comma returned the parse error.
C11_Witness ==
    \E r \in Req :
        /\ variant[r] \in SharedVariants /\ pc[r] = "returned" /\ result[r] = InvalidJson
        /\ mirrord_config[r] # <<>> /\ ~from_str(mirrord_config[r]).ok

NotAnObject == McpError("Mirrord config must be a JSON object", "")

\* C12: in every variant, a request whose partial configuration parses as
\* JSON but is not an object has returned the not-an-object error once the
\* configuration has been read, and never started mirrord.
C12_NonObjectRejected ==
    \A r \in Req :
        (/\ mirrord_config[r] # <<>>
         /\ from_str(mirrord_config[r]).ok
         /\ from_str(mirrord_config[r]).val.kind # "object") =>
            /\ pc[r] = "returned" /\ result[r] = NotAnObject
            /\ ~Entered(r, "execute")

\* The mirrord child of request r has completed with exit status 0.
ExitedZero(r) ==
    task[r].st = "done" /\ task[r].out.res = "exit" /\ task[r].out.code = 0

\* C13 as stated: the executor's wait for mirrord ends in success exactly
\* when the child completed (before the deadline fired) with status 0, and
\* the payload then is the child's stdout, unchanged.
C13_SuccessPayloadIsStdout ==
    [][\A r \in Req :
          (pc[r] = "await_mirrord" /\ pc'[r] = "returned") =>
              /\ result'[r].ok <=> ExitedZero(r)
              /\ result'[r].ok => result'[r].detail = task[r].out.stdout]_vars

\* C13 amended: the same, with the payload being the child's stdout decoded
\* as UTF-8, U+FFFD in place of invalid sequences; stderr is no part of it.
\* A request of the executor succeeds in no other step.
C13_SuccessPayloadIsDecodedStdout ==
    /\ [][\A r \in Req :
            (pc[r] = "await_mirrord" /\ pc'[r] = "returned") =>
                /\ result'[r].ok <=> ExitedZero(r)
                /\ result'[r].ok =>
                      /\ result'[r].detail = from_utf8_lossy(task[r].out.stdout)
                      /\ task[r].out.stdout # InvalidUtf8 =>
                            result'[r].detail = task[r].out.stdout]_vars
    /\ [][\A r \in Req :
            (variant[r] \in SharedVariants /\ ~result[r].ok /\ result'[r].ok) =>
                pc[r] = "await_mirrord"]_vars

\* C13 witness: a request of the executor returned success with a payload
\* in which invalid bytes of the child's stdout are replaced.
C13_Witness ==
    \E r \in Req :
        /\ variant[r] \in SharedVariants /\ pc[r] = "returned"
        /\ result[r].ok /\ result[r].detail = Replaced

\* The mirrord child of request r has completed with a status other than 0.
ExitedNonZero(r) ==
    task[r].st = "done" /\ task[r].out.res = "exit" /\ task[r].out.code # 0

\* The non-zero-exit error for an exit code shown as `shown` and a stderr.
NonZeroExit(shown, stderr) ==
    McpError("Mirrord execution failed (Exit Code: " \o shown \o "): ", stderr)

\* C14 as stated: when the child has completed with a non-zero status, the
\* executor returns the non-zero-exit error with the child's stderr and its
\* exit code, "unknown" standing for the code of a child killed by a signal.
C14_NonZeroExitUnknown ==
    [][\A r \in Req :
          (pc[r] = "await_mirrord" /\ pc'[r] # pc[r] /\ ExitedNonZero(r)) =>
              /\ pc'[r] = "returned"
              /\ result'[r] =
                    NonZeroExit(IF task[r].out.code = NoCode THEN "unknown"
                                ELSE ToString(task[r].out.code),
                                task[r].out.stderr)]_vars

\* C14 amended: the same, with "None" standing for the code of a child
\* killed by a signal, and the stderr decoded as UTF-8.
C14_NonZeroExitNone ==
    [][\A r \in Req :
          (pc[r] = "await_mirrord" /\ pc'[r] # pc[r] /\ ExitedNonZero(r)) =>
              /\ pc'[r] = "returned"
              /\ result'[r] =
                    NonZeroExit(IF task[r].out.code = NoCode THEN "None"
                                ELSE ToString(task[r].out.code),
                                from_utf8_lossy(task[r].out.stderr))]_vars

\* C14 witness: a request returned the non-zero-exit error of a child killed
\* by a signal, with the child's stderr.
C14_Witness ==
    \E r \in Req :
        /\ pc[r] = "returned"
        /\ result[r] = NonZeroExit("None", "diagnostic")

ToolNotFound == McpError("Failed to execute mirrord: 'mirrord' command not found in PATH.", "")
SpawnFailed(os_error) == McpError("Failed to start mirrord process: ", os_error)

\* C15: when Command::output() of mirrord failed to spawn the child, the
\* executor returns the tool-not-found error if the OS error is NotFound and
\* otherwise the spawn-failed error carrying the OS error, and the two
\* errors differ.
C15_SpawnFailureClassified ==
    [][\A r \in Req :
          (/\ pc[r] = "await_mirrord" /\ pc'[r] # pc[r]
           /\ task[r].st = "done" /\ task[r].out.res = "spawn_err") =>
              /\ pc'[r] = "returned"
              /\ task[r].out.stderr = "NotFound" => result'[r] = ToolNotFound
              /\ task[r].out.stderr # "NotFound" =>
                    /\ result'[r] = SpawnFailed(task[r].out.stderr)
                    /\ result'[r].msg # ToolNotFound.msg]_vars

\* C15 witness: a request returned the spawn-failed error for a permission
\* error.
C15_Witness ==
    \E r \in Req : pc[r] = "returned" /\ result[r] = SpawnFailed("PermissionDenied")

\* The kind that the taxonomy gives the error with message msg.
ErrorKind(msg) ==
    IF msg \in StepErrors("acquire") THEN "WorkspaceError"
    ELSE IF msg \in StepErrors("setup") THEN "SetupError"
    ELSE IF msg = "No pod found for deployment: " THEN "ResolutionError::NotFound"
    ELSE IF msg = "kubectl command timed out after " THEN "ResolutionError::Timeout"
    ELSE IF msg \in StepErrors("resolve") THEN "ResolutionError::QueryFailed"
    ELSE IF msg = "Failed to parse mirrord config" THEN "ConfigError::InvalidJson"
    ELSE IF msg = "Mirrord config must be a JSON object" THEN "ConfigError::NotAnObject"
    ELSE IF msg \in StepErrors("config_file") THEN "ConfigError::SerializeFailed"
    ELSE IF msg = ToolNotFound.msg THEN "ExecutionError::ToolNotFound"
    ELSE IF msg = "Mirrord execution timed out after " THEN "ExecutionError::Timeout"
    ELSE IF msg \in {"Failed to start mirrord process: ", "mirrord task failed: "}
    THEN "ExecutionError::SpawnFailed"
    ELSE IF msg \in StepErrors("execute") THEN "ExecutionError::NonZeroExit"
    ELSE "other"

\* C16: the error a request of the executor returned differs in its code,
\* the machine-readable part of the error, from every error of another kind
\* of the taxonomy that the executor can return.
C16_KindsDistinguishable ==
    \A r \in Req :
        (variant[r] \in SharedVariants /\ pc[r] = "returned" /\ ~result[r].ok) =>
            \A step \in Steps : \A msg \in StepErrors(step) :
                ErrorKind(msg) # ErrorKind(result[r].msg) =>
                    McpError(msg, "").code # result[r].code

QueryFailed(stderr) == McpError("kubectl command failed: ", stderr)

\* C17: in the shared executor, a cluster query that exits non-zero makes
\* the request return the query-failed error with the query's stderr, and a
\* request that returned it has read no config and started no mirrord.
C17_QueryFailed ==
    /\ [][\A r \in Req :
            (/\ pc[r] = "await_kubectl" /\ pc'[r] # pc[r]
             /\ task[r].st = "done" /\ task[r].out.res = "exit" /\ task[r].out.code # 0) =>
                /\ pc'[r] = "returned"
                /\ result'[r] = QueryFailed(from_utf8_lossy(task[r].out.stderr))]_vars
    /\ [](\A r \in Req :
            (pc[r] = "returned" /\ result[r].msg = QueryFailed("").msg) =>
                /\ ~Entered(r, "merge") /\ ~Entered(r, "config_file") /\ ~Entered(r, "execute")
                /\ mirrord_config[r] = <<>>
                /\ config_str[r] = <<>> /\ ~config_file[r].exists)

\* C17 witness: a request returned the query-failed error with the stderr of
\* kubectl.
C17_Witness ==
    \E r \in Req : pc[r] = "returned" /\ result[r] = QueryFailed("diagnostic")

ResolutionTimeout == McpError("kubectl command timed out after ", "30s")

\* C18: a request of the shared executor that is waiting for the cluster
\* query leaves the wait even if the query never completes; when it leaves
\* it while the query has not completed it returns the resolution timeout
\* through Cleanup, without waiting for or stopping the query.
C18_ResolutionDeadline ==
    /\ \A r \in Req : (pc[r] = "await_kubectl") ~> (pc[r] # "await_kubectl")
    /\ [][\A r \in Req :
            (pc[r] = "await_kubectl" /\ task[r].st # "done" /\ pc'[r] # pc[r]) =>
                /\ pc'[r] = "returned" /\ result'[r] = ResolutionTimeout
                /\ task'[r] = task[r]
                /\ ~project_dir'[r].exists /\ ~config_file'[r].exists
                /\ trace'[r] = trace[r] \o <<"cleanup">>]_vars

\* C18 witness: the request has returned the resolution timeout and its
\* query is still running.
C18_Witness ==
    \E r \in Req :
        /\ pc[r] = "returned" /\ result[r] = ResolutionTimeout
        /\ task[r].kind = "kubectl" /\ task[r].st = "running"

\* The `target.path` of an effective configuration.
TargetPath(config) == from_str(config).val.f["target"].f["path"].s

PcRank(p) ==
    IF p = "start" THEN 0
    ELSE IF p = "setup" THEN 1
    ELSE IF p \in {"await_cargo", "await_venv"} THEN 2
    ELSE IF p = "await_pip" THEN 3
    ELSE IF p = "resolve" THEN 4
    ELSE IF p = "await_kubectl" THEN 5
    ELSE IF p = "merge" THEN 6
    ELSE IF p = "config_file" THEN 7
    ELSE IF p = "command_args" THEN 8
    ELSE IF p = "await_mirrord" THEN 9
    ELSE 10

\* The external commands that the code at an await point dispatches.
StartedAt(p) ==
    IF p = "setup" THEN {"cargo", "venv"}
    ELSE IF p = "await_venv" THEN {"pip"}
    ELSE IF p = "resolve" THEN {"kubectl"}
    ELSE IF p = "command_args" THEN {"mirrord"}
    ELSE {}

\* C20: a request of the shared executor only moves forward through its
\* steps; an external command is dispatched only by the step that moves past
\* the one place of the pipeline that starts it, so each is started at most
\* once; a result is set only by returning, and once the request has
\* returned nothing of it is started or changed again.
C20_NoRetry ==
    [][\A r \in Req :
          variant[r] \in SharedVariants =>
              /\ pc'[r] # pc[r] => PcRank(pc'[r]) > PcRank(pc[r])
              /\ (task'[r].st = "queued" /\ task'[r] # task[r]) =>
                    /\ pc'[r] # pc[r]
                    /\ task'[r].kind \in StartedAt(pc[r])
              /\ result'[r] # result[r] => (pc[r] # "returned" /\ pc'[r] = "returned")
              /\ pc[r] = "returned" =>
                    /\ pc'[r] = "returned"
                    /\ trace'[r] = trace[r]
                    /\ task'[r].st # "queued" \/ task'[r] = task[r]]_vars

\* C20 witness: a request whose mirrord task failed has returned the error
\* and has no task.
C20_Witness ==
    \E r \in Req :
        /\ pc[r] = "returned" /\ result[r].msg = "mirrord task failed: "
        /\ task[r] = NoTask

\* Where a request waits for a toolchain command of its setup.
SetupWaits == {"await_cargo", "await_venv", "await_pip", "sync_toolchain"}

\* C21: a rust, python or node request that waits for a toolchain command
\* of its setup leaves that wait, also when the command never exits.
C21_SetupBounded ==
    \A r \in Req :
        (variant[r] \in {"rust", "python", "node"} /\ pc[r] \in SetupWaits)
            ~> (pc[r] \notin SetupWaits)

BinaryNotFoundMsg == "Compiled binary not found after successful build at: "

\* C22: when `cargo build` of a rust request has exited 0 and the project
\* directory holds no binary, the request returns the binary-not-found setup
\* error, and a request that returned it has started neither the cluster
\* query nor mirrord.
C22_MissingBinaryFailsSetup ==
    /\ [][\A r \in Req :
            (/\ pc[r] = "await_cargo" /\ pc'[r] # pc[r]
             /\ task[r].st = "done" /\ task[r].out.res = "exit" /\ task[r].out.code = 0
             /\ project_dir[r].bin = "none") =>
                /\ pc'[r] = "returned"
                /\ result'[r].msg = BinaryNotFoundMsg
                /\ task'[r] = NoTask]_vars
    /\ [](\A r \in Req :
            (pc[r] = "returned" /\ result[r].msg = BinaryNotFoundMsg) =>
                /\ ~result[r].ok
                /\ ~Entered(r, "resolve") /\ ~Entered(r, "merge") /\ ~Entered(r, "execute")
                /\ task[r] = NoTask /\ ~config_file[r].exists)

\* C22 witness: a rust request whose build left no binary has returned the
\* binary-not-found error straight after setup.
C22_Witness ==
    \E r \in Req :
        /\ variant[r] = "rust" /\ compile_mode[r] = "release"
        /\ pc[r] = "returned" /\ result[r].msg = BinaryNotFoundMsg
        /\ trace[r] = <<"acquire", "acquire.ok", "setup", "cleanup">>

\* A toolchain command of request r, run by the shared executor's runner,
\* has exited with a status other than 0.
ToolchainFailed(r) ==
    /\ pc[r] \in {"await_cargo", "await_venv", "await_pip"}
    /\ task[r].st = "done" /\ task[r].out.res = "exit" /\ task[r].out.code # 0

SetupFailedMsgs == {"Rust build failed: ", "Failed to create python venv: ", "pip install failed: "}

Pair == {1, 2}

PairInit ==
    /\ variant \in [Pair -> Variants]
    /\ compile_mode \in [Pair -> CompileModes]
    /\ \A r \in Pair : variant[r] # "rust" => compile_mode[r] = "release"
    /\ mirrord_config = [r \in Pair |-> <<>>]
    /\ pc = [r \in Pair |-> "start"]
    /\ project_dir = [r \in Pair |-> NoDir]
    /\ config_file = [r \in Pair |-> NoFile]
    /\ task = [r \in Pair |-> NoTask]
    /\ pod_name = [r \in Pair |-> ""]
    /\ config_str = [r \in Pair |-> <<>>]
    /\ result = [r \in Pair |-> NoResult]
    /\ trace = [r \in Pair |-> <<>>]
    /\ disk = "ok"

PairNext ==
    \E r \in Pair : ExecutorNext(r) \/ StandaloneNext(r) \/ BlockingRun(r) \/ ChildExit(r)

PairSpec == PairInit /\ [][PairNext]_vars

\* What request q owns: its workspace, its config file, its child and its
\* own locals.
Owned(q) ==
    <<project_dir[q], config_file[q], task[q], pc[q], pod_name[q], config_str[q], result[q]>>

\* C24: at every moment two requests' workspaces that exist have different
\* paths and so have their config files, and a step of one request changes
\* nothing that the other owns (workspace, config file, child, locals).
C24_NoSharedState ==
    /\ [](\A r, q \in Pair :
            r # q =>
              /\ (project_dir[r].exists /\ project_dir[q].exists)
                    => project_dir[r].name # project_dir[q].name
              /\ (config_file[r].exists /\ config_file[q].exists)
                    => config_file[r].name # config_file[q].name)
    /\ [][\A r, q \in Pair :
             (r # q /\ Owned(r)' # Owned(r)) => Owned(q)' = Owned(q)]_vars

\* C24 witness: two requests are in flight together, each with its
\* workspace, its config file and its running mirrord child.
C24_Witness ==
    /\ \A r \in Pair :
          /\ pc[r] = "await_mirrord" /\ task[r].kind = "mirrord" /\ task[r].st = "running"
          /\ project_dir[r].exists /\ config_file[r].exists
    /\ project_dir[1].name # project_dir[2].name
    /\ config_file[1].name # config_file[2].name

\* The places where a request's function is inside Command::output() itself,
\* on the thread that runs the request, and not at an .await on a task of the
\* blocking pool.
InlineCalls == {"sync_kubectl", "sync_toolchain", "sync_mirrord"}

\* C25: while an external command of a request is in progress, the request
\* waits at an await point with the command on the blocking pool; it is never
\* inside the call on the scheduler's thread.
C25_SlowCallsOffScheduler ==
    \A r \in Req :
        (pc[r] # "returned" /\ task[r].st \in {"queued", "running"}) => pc[r] \notin InlineCalls

\* The same server on a temporary directory whose entries may fail to be
\* removed.
FaultInit ==
    /\ variant \in [Req -> Variants]
    /\ compile_mode \in [Req -> CompileModes]
    /\ \A r \in Req : variant[r] # "rust" => compile_mode[r] = "release"
    /\ mirrord_config = [r \in Req |-> <<>>]
    /\ pc = [r \in Req |-> "start"]
    /\ project_dir = [r \in Req |-> NoDir]
    /\ config_file = [r \in Req |-> NoFile]
    /\ task = [r \in Req |-> NoTask]
    /\ pod_name = [r \in Req |-> ""]
    /\ config_str = [r \in Req |-> <<>>]
    /\ result = [r \in Req |-> NoResult]
    /\ trace = [r \in Req |-> <<>>]
    /\ disk = "faulty"

FaultSpec == FaultInit /\ [][Next]_vars

\* Request r has returned and its cleanup left the workspace or the config
\* file behind.
CleanupFailed(r) ==
    /\ pc[r] = "returned"
    /\ \/ Entered(r, "cleanup") /\ project_dir[r].exists
       \/ config_file[r].exists

\* C26: whenever a request returns with a cleanup that failed to remove the
\* workspace or the config file, the same step with a cleanup that removed
\* both was possible and gives the caller the same result.
C26_CleanupFailureSwallowed ==
    [][\A r \in Req :
          (pc[r] # "returned" /\ CleanupFailed(r)') =>
              \A res \in {result'[r]} :
                  ENABLED (/\ (ExecutorNext(r) \/ StandaloneNext(r))
                           /\ pc'[r] = "returned"
                           /\ ~CleanupFailed(r)'
                           /\ result'[r] = res)]_vars

\* C26 witness: a request returned the stdout of its run although neither
\* its workspace nor its config file could be removed.
C26_Witness ==
    \E r \in Req :
        /\ pc[r] = "returned" /\ result[r] = Ok("response")
        /\ Entered(r, "cleanup") /\ project_dir[r].exists /\ config_file[r].exists

\* The invocation that a mirrord command line ends with.
Invocation(argv) == SubSeq(argv, 5, Len(argv))

\* The mirrord child of request r is queued or running.
MirrordPending(r) == task[r].kind = "mirrord" /\ task[r].st \in {"queued", "running"}

\* C27: a raw-command request runs no toolchain command and leaves its
\* workspace as it was created, and the invocation of its mirrord child is
\* the command line split into shell words: echo "a b" c gives echo, a b, c.
C27_RawCommandTokenized ==
    /\ shell_split(EchoLine) = <<"echo", "a b", "c">>
    /\ \A r \in Req :
          variant[r] = "raw" =>
              /\ task[r].kind \in {"", "kubectl", "mirrord"}
              /\ project_dir[r].bin = "none"
              /\ Entered(r, "setup") => Entered(r, "setup.ok")
              /\ MirrordPending(r) =>
                    Invocation(task[r].argv) \in
                        {<<"echo", "a b", "c">>, <<"ls", "-l">>, <<"sh", "-c", "exit 0">>}

\* C27 witness: the mirrord child of a raw-command request runs echo with
\* the two arguments `a b` and `c`.
C27_Witness ==
    \E r \in Req :
        /\ variant[r] = "raw" /\ task[r].kind = "mirrord" /\ task[r].st = "running"
        /\ Invocation(task[r].argv) = <<"echo", "a b", "c">>

\* C28: the command line of the mirrord child is mirrord, exec,
\* --config-file, the path of the request's config file, the separator --,
\* and then the runner's executable and arguments in their order.
C28_CommandLine ==
    \A r \in Req :
        (variant[r] \in SharedVariants /\ pc[r] = "await_mirrord" /\ MirrordPending(r)) =>
            /\ Len(task[r].argv) >= 6
            /\ SubSeq(task[r].argv, 1, 5) =
                  <<"mirrord", "exec", "--config-file", ConfigPath(config_file[r]), "--">>
            /\ variant[r] = "python" =>
                  SubSeq(task[r].argv, 6, Len(task[r].argv)) =
                      get_command_args("python", project_dir[r], compile_mode[r], <<>>)

\* C29: the mirrord child of a python request runs the interpreter of the
\* virtual environment in the request's own workspace, with main.py of that
\* workspace, and pip is started only when the command that creates the
\* virtual environment has exited with status 0.
C29_VenvInterpreter ==
    /\ [](\A r \in Req :
            (variant[r] = "python" /\ pc[r] = "await_mirrord" /\ MirrordPending(r)) =>
                /\ project_dir[r].exists
                /\ Invocation(task[r].argv) =
                      <<WorkspacePath(project_dir[r]) \o "/.venv/bin/python",
                        WorkspacePath(project_dir[r]) \o "/main.py">>)
    /\ [][\A r \in Req :
             (task'[r].kind = "pip" /\ task[r].kind # "pip") =>
                 /\ variant[r] = "python" /\ pc[r] = "await_venv"
                 /\ task[r].kind = "venv" /\ ExitedZero(r)]_vars

\* C29 witness: a python request whose virtual environment and install
\* succeeded runs mirrord with the interpreter of its workspace.
C29_Witness ==
    \E r \in Req :
        /\ variant[r] = "python" /\ task[r].kind = "mirrord" /\ task[r].st = "running"
        /\ Entered(r, "setup.ok")
        /\ task[r].argv[5] = WorkspacePath(project_dir[r]) \o "/.venv/bin/python"

\* C30: the mirrord child of a request is spawned only while the request
\* waits for it, with its config file and workspace in place; never after
\* the request has returned.
C30_SpawnOnlyWhileExecuting ==
    [][\A r \in Req :
          (task[r].kind = "mirrord" /\ task[r].st = "queued" /\ task'[r].st = "running") =>
              /\ pc[r] = "await_mirrord"
              /\ config_file[r].exists /\ project_dir[r].exists]_vars

\* C31: while a child process started for a request in its workspace (cargo,
\* the venv command, pip, npm or mirrord) is running, the workspace exists.
C31_WorkspaceOutlivesChild ==
    \A r \in Req :
        (task[r].st = "running" /\ task[r].kind \in {"cargo", "venv", "pip", "npm", "mirrord"})
            => project_dir[r].exists

\* C32: for every compile mode the binary is looked up in the directory the
\* build of that mode writes to, so a build that exited 0 and left its
\* binary is never answered with `binary not found`: setup succeeds.
C32_BinaryPathMatchesBuild ==
    [][\A r \in Req :
          (/\ variant[r] = "rust" /\ pc[r] = "await_cargo" /\ ExitedZero(r)
           /\ project_dir[r].bin = ProfileDir(compile_args(compile_mode[r]))
           /\ pc'[r] # pc[r]) => pc'[r] = "resolve"]_vars

\* The runtime polls every request's future: a step of the request's own
\* code that can be taken is taken, and a deadline that has elapsed fires.
\* Nothing makes an external process exit.
ReturnFairSpec ==
    /\ Spec
    /\ \A r \in Req : /\ WF_vars(ExecutorNext(r))
                      /\ WF_vars(StandaloneGetPodName(r))
                      /\ WF_vars(StandaloneConfig(r))
                      /\ WF_vars(StandaloneCreateProject(r))

\* C33: every request, of every variant, returns to its caller, whether or
\* not the processes it starts ever exit.
C33_AlwaysReturns ==
    \A r \in Req : (pc[r] # "returned") ~> (pc[r] = "returned")

\* C34: in the shared executor a config file comes into existence only in
\* the config-file step of a request whose resolution and merge succeeded,
\* so a request that failed before that step never had one, and a config
\* file that exists holds the effective configuration: a JSON object with a
\* `target` field.
C34_ConfigFileAfterMerge ==
    /\ [](\A r \in Req :
            variant[r] \in SharedVariants =>
                /\ ~Entered(r, "config_file.ok") => ~config_file[r].exists
                /\ config_file[r].exists =>
                      /\ Entered(r, "setup.ok") /\ Entered(r, "merge.ok")
                      /\ config_file[r].content = config_str[r]
                      /\ LET v == from_str(config_file[r].content) IN
                            /\ v.ok /\ v.val.kind = "object"
                            /\ "target" \in DOMAIN v.val.f
                            /\ Index(v.val, "target").kind = "object")
    /\ [][\A r \in Req :
             (variant[r] \in SharedVariants /\ ~config_file[r].exists /\ config_file'[r].exists) =>
                 /\ pc[r] = "config_file" /\ pc'[r] = "command_args"
                 /\ pod_name[r] \in PodNames
                 /\ Entered(r, "merge.ok")]_vars

\* C34 witness: a request of the shared executor has its config file, with
\* the resolved pod as target, after setup, resolution and merge.
C34_Witness ==
    \E r \in Req :
        /\ variant[r] \in SharedVariants /\ config_file[r].exists
        /\ pc[r] = "command_args"
        /\ TargetPath(config_file[r].content) = "pod/" \o pod_name[r]

\* C35: in the shared executor every request that completed setup issues the
\* cluster query, the partial config is read only after the query gave a
\* pod, and a request whose resolution failed returns the resolution error
\* whatever its config is, never a config error.
C35_ResolveBeforeParse ==
    \A r \in Req :
        variant[r] \in SharedVariants =>
            /\ (Entered(r, "setup.ok") /\ pc[r] # "resolve") => Entered(r, "resolve")
            /\ (mirrord_config[r] # <<>> \/ Entered(r, "merge")) => Entered(r, "resolve.ok")
            /\ (pc[r] = "returned" /\ result[r] \in {InvalidJson, NotAnObject})
                  => Entered(r, "resolve.ok")
            /\ (pc[r] = "returned" /\ Entered(r, "resolve") /\ ~Entered(r, "resolve.ok")) =>
                  /\ ~result[r].ok /\ result[r].msg \in StepErrors("resolve")
                  /\ mirrord_config[r] = <<>>

\* C35 witness: a request whose deployment has no running pod returned the
\* not-found error with its partial config never read.
C35_Witness ==
    \E r \in Req :
        /\ variant[r] \in SharedVariants /\ pc[r] = "returned"
        /\ result[r] = NotFound /\ mirrord_config[r] = <<>>
        /\ Entered(r, "setup.ok") /\ Entered(r, "resolve")

=============================================================================
